---- MODULE Spec2Model ----
(***************************************************************************)
(* A model of the UPS export splitter: ups_run.py (main) and ups_utils.py. *)
(*                                                                         *)
(* Text is a sequence of one-character strings, so that strip, lower and   *)
(* the regular-expression substitutions are computed character by          *)
(* character. A cell of the loaded table is a record: a missing value      *)
(* (pandas NaN), a text, or a text that parses as a date (its day number). *)
(* Dates are whole days (to_date normalises every parsed value).           *)
(*                                                                         *)
(* Four specifications:                                                    *)
(*   SpecModule    the load of ups_run.py up to the end of its import of   *)
(*                 ups_utils (ups_utils.py defines no bucket);             *)
(*   Spec          a run of main() from its entry, the imported names      *)
(*                 bound, bucket being the function of section 4.3 of the  *)
(*                 specification;                                          *)
(*   SpecRow       the classification of one row (lines 96-132);           *)
(*   SpecSafeName  safe_name applied once and again.                       *)
(* A file's content is the set of the row numbers written to it and its    *)
(* columns; of summary.txt the run date and the counts are kept (each      *)
(* count as the set of rows it counts), not the cross tabulations and the  *)
(* location lists. The output directory is empty when a run starts.        *)
(***************************************************************************)
EXTENDS Integers, Sequences, FiniteSets, TLC

VARIABLES
    \* the run of main(): ups_run.py
    pc,                   \* where main is
    in_exists,            \* argv: whether the input path exists
    suffix,               \* argv: the input path's suffix
    clock,                \* the system clock's day
    loaded,               \* the frame as read by pd.read_csv / pd.read_excel
    cols,                 \* the resolved column of each logical field
    df,                   \* the working frame
    df_battery_effective, \* the battery frame after the suppression rules
    today,                \* line 71
    stamp,                \* line 142
    dirs,                 \* directories made
    files,                \* path -> content of every file written
    writes,               \* the write_bucket_csv calls made so far
    contacts_done,        \* the groups the loop of line 158 has handled
    summary,              \* what summary.txt reports
    exit_msg,             \* the SystemExit raised, if any
    \* one row through the classification of lines 96-132
    rw_pc, rw_in, rw_out,
    \* the load of ups_run.py up to the end of its import of ups_utils
    mod_pc, mod_defined, mod_bound,
    \* safe_name applied once and again
    sn_pc, sn_in, sn_once, sn_twice

mainVars == <<pc, in_exists, suffix, clock, loaded, cols, df, df_battery_effective,
              today, stamp, dirs, files, writes, contacts_done, summary, exit_msg>>
rwVars == <<rw_pc, rw_in, rw_out>>
modVars == <<mod_pc, mod_defined, mod_bound>>
snVars == <<sn_pc, sn_in, sn_once, sn_twice>>
vars == <<mainVars, rwVars, modVars, snVars>>

(***************************************************************************)
(* Characters                                                              *)
(***************************************************************************)
UpperSeq == <<"A","B","C","D","E","F","G","H","I","J","K","L","M",
              "N","O","P","Q","R","S","T","U","V","W","X","Y","Z">>
LowerSeq == <<"a","b","c","d","e","f","g","h","i","j","k","l","m",
              "n","o","p","q","r","s","t","u","v","w","x","y","z">>
DigitSeq == <<"0","1","2","3","4","5","6","7","8","9">>

Range(f) == {f[i] : i \in DOMAIN f}

UpperSet == Range(UpperSeq)
LowerSet == Range(LowerSeq)
DigitSet == Range(DigitSeq)
IsUpper(c) == c \in UpperSet
IsLower(c) == c \in LowerSet
IsDigit(c) == c \in DigitSet
\* str.isspace / the regular expression class \s, on the characters used here
IsSpace(c) == c \in {" ", "\t", "\n"}

\* str.lower, one character
LowerOf == [c \in UpperSet |-> LowerSeq[CHOOSE i \in DOMAIN UpperSeq : UpperSeq[i] = c]]
LowerChar(c) == IF IsUpper(c) THEN LowerOf[c] ELSE c
\* str.upper, one character
UpperOf == [c \in LowerSet |-> UpperSeq[CHOOSE i \in DOMAIN LowerSeq : LowerSeq[i] = c]]
UpperChar(c) == IF IsLower(c) THEN UpperOf[c] ELSE c

lower(s) == [i \in 1..Len(s) |-> LowerChar(s[i])]
upper(s) == [i \in 1..Len(s) |-> UpperChar(s[i])]

RECURSIVE lstrip(_)
lstrip(s) ==
    IF s = <<>> THEN <<>>
    ELSE IF IsSpace(Head(s)) THEN lstrip(Tail(s))
    ELSE s

RECURSIVE rstrip(_)
rstrip(s) ==
    IF s = <<>> THEN <<>>
    ELSE IF IsSpace(s[Len(s)]) THEN rstrip(SubSeq(s, 1, Len(s) - 1))
    ELSE s

\* str.strip()
strip(s) == rstrip(lstrip(s))

\* "sub in s" for texts
Contains(s, sub) ==
    \E i \in 1..(Len(s) - Len(sub) + 1) : SubSeq(s, i, i + Len(sub) - 1) = sub

(***************************************************************************)
(* Cells                                                                   *)
(***************************************************************************)
NaN == [kind |-> "nan", s |-> <<>>, day |-> 0]
Text(s) == [kind |-> "str", s |-> s, day |-> 0]
\* a cell whose text parses as the date of day number d
DateText(s, d) == [kind |-> "date", s |-> s, day |-> d]

\* str(x): the text of a cell; str(float("nan")) is "nan"
str(x) == IF x.kind = "nan" THEN <<"n","a","n">> ELSE x.s

(***************************************************************************)
(* ups_utils.safe_name                                                     *)
(***************************************************************************)
UNASSIGNED == <<"U","N","A","S","S","I","G","N","E","D">>

\* re.sub(r"\s+", "_", s): every maximal run of whitespace becomes one "_"
RECURSIVE SubSpaceRuns(_)
SubSpaceRuns(s) ==
    IF s = <<>> THEN <<>>
    ELSE IF IsSpace(Head(s)) THEN <<"_">> \o SubSpaceRuns(lstrip(s))
    ELSE <<Head(s)>> \o SubSpaceRuns(Tail(s))

\* the class [A-Za-z0-9_\-]
IsNameChar(c) == IsUpper(c) \/ IsLower(c) \/ IsDigit(c) \/ c \in {"_", "-"}

\* re.sub(r"[^A-Za-z0-9_\-]+", "", s)
DropNonNameChars(s) == SelectSeq(s, IsNameChar)

\* a plausible slip: the whitespace substitution left out
safe_name_NoUnderscore(x) ==
    LET s == strip(str(x)) IN
    IF s = <<>> \/ lower(s) = <<"n","a","n">> THEN UNASSIGNED
    ELSE LET t == DropNonNameChars(s) IN
         IF t = <<>> THEN UNASSIGNED ELSE t

safe_name(x) ==
    LET s == strip(str(x)) IN
    IF s = <<>> \/ lower(s) = <<"n","a","n">> THEN UNASSIGNED
    ELSE LET t == DropNonNameChars(SubSpaceRuns(s)) IN
         IF t = <<>> THEN UNASSIGNED ELSE t

(***************************************************************************)
(* ups_utils.normalize, ups_utils.find_col and the columns main resolves   *)
(***************************************************************************)
\* re.sub(r"[^a-z0-9]+", "", str(s).strip().lower())
normalize(s) == SelectSeq(lower(strip(s)), LAMBDA c : IsLower(c) \/ IsDigit(c))

\* Python's None for a column that is not found; "not col" holds of it
None == <<>>

Max(S) == CHOOSE x \in S : \A y \in S : y <= x
Min(S) == CHOOSE x \in S : \A y \in S : x <= y

\* norm_map keeps, for each normalised name, the last column that has it; the
\* first candidate found in norm_map decides
find_col(columns, candidates) ==
    LET hits(j) == {i \in DOMAIN columns : normalize(columns[i]) = normalize(candidates[j])}
        found == {j \in DOMAIN candidates : hits(j) # {}}
    IN IF found = {} THEN None ELSE columns[Max(hits(Min(found)))]

\* ups_run.py lines 41-49: the names each logical field may carry
Candidates ==
    [ contact |-> << <<"C","o","n","t","a","c","t">> >>,
      loc |-> << <<"U","P","S"," ","L","o","c","a","t","i","o","n"," ","a","n","d"," ","H","o","s","t","n","a","m","e">>,
                 <<"U","P","S"," ","L","o","c","a","t","i","o","n"," ","&"," ","H","o","s","t","n","a","m","e">>,
                 <<"L","o","c","a","t","i","o","n"," ","a","n","d"," ","H","o","s","t","n","a","m","e">> >>,
      ip |-> << <<"I","P"," ","A","d","d","r","e","s","s">>, <<"I","P">> >>,
      mac |-> << <<"M","A","C"," ","A","d","d","r","e","s","s">>, <<"M","A","C">> >>,
      battery_type |-> << <<"B","a","t","t","e","r","y"," ","T","y","p","e">>,
                          <<"B","a","t","t","e","r","y"," ","M","o","d","e","l">> >>,
      battery_due |-> << <<"N","e","x","t"," ","B","a","t","t","e","r","y"," ","R","e","p","l","a","c","e","m","e","n","t"," ","D","a","t","e">>,
                         <<"N","e","x","t"," ","B","a","t","t","e","r","y"," ","R","e","p","l","a","c","e","m","e","n","t">> >>,
      unit_model |-> << <<"U","n","i","t"," ","M","o","d","e","l">> >>,
      unit_serial |-> << <<"U","n","i","t"," ","S","e","r","i","a","l"," ","#">>,
                         <<"U","n","i","t"," ","S","e","r","i","a","l">>,
                         <<"S","e","r","i","a","l"," ","#">>,
                         <<"S","e","r","i","a","l">> >>,
      unit_due |-> << <<"U","n","i","t"," ","r","e","p","l","a","c","e","m","e","n","t"," ","D","a","t","e">>,
                      <<"U","n","i","t"," ","R","e","p","l","a","c","e","m","e","n","t"," ","D","a","t","e">>,
                      <<"R","e","p","l","a","c","e","m","e","n","t"," ","D","a","t","e">> >> ]

Fields == DOMAIN Candidates

\* lines 41-49: every logical field's column, or None
ResolveColumns(columns) == [f \in Fields |-> find_col(columns, Candidates[f])]

\* a plausible slip: the unit due date left out of the required columns
RequiredFields_NoUnitDue == <<"contact", "loc", "battery_type", "battery_due">>

\* lines 52-58: the fields whose column must be found
RequiredFields == <<"contact", "loc", "battery_type", "battery_due", "unit_due">>

\* lines 51-60: the required fields that are not found, in order
MissingRequired(resolved) == SelectSeq(RequiredFields, LAMBDA f : resolved[f] = None)

\* line 77: the columns whose cells identify a unit
IdentifierFields == <<"ip", "mac", "unit_serial", "unit_model", "battery_type">>

\* lines 33-38: the suffixes main loads
ExcelSuffixes == { <<".","x","l","s","x">>, <<".","x","l","s">> }
CsvSuffix == <<".","c","s","v">>
SuffixSupported(sfx) == lower(sfx) \in ExcelSuffixes \/ lower(sfx) = CsvSuffix

(***************************************************************************)
(* Row filter: ups_utils.not_blank and lines 76-89                         *)
(***************************************************************************)
\* a plausible slip: the cell's text compared without trimming it
not_blank_NoStrip(cell) == cell.kind # "nan" /\ str(cell) # <<>>

\* series.notna() & (series.astype(str).str.strip() != "")
not_blank(cell) == cell.kind # "nan" /\ strip(str(cell)) # <<>>

\* lines 76-86: the masks of the identifier columns that exist, or-ed; every
\* row when none exists
has_identifier(cells, resolved) ==
    LET present == SelectSeq(IdentifierFields, LAMBDA f : resolved[f] # None)
    IN IF present # <<>>
       THEN \E i \in DOMAIN present : not_blank(cells[resolved[present[i]]])
       ELSE TRUE

(***************************************************************************)
(* Dates, days until due, buckets: lines 96-117                            *)
(***************************************************************************)
\* a date or a day count that may be missing (NaT, NaN)
Some(v) == [ok |-> TRUE, v |-> v]
NaT == [ok |-> FALSE, v |-> 0]

\* pd.to_datetime(series, errors="coerce").dt.normalize(): what does not
\* parse as a date, and what is missing, becomes NaT
to_date(cell) == IF cell.kind = "date" THEN Some(cell.day) ELSE NaT

\* (df[due_col] - today).dt.days; NaT gives NaN
days_until(due, run_day) == IF due.ok THEN Some(due.v - run_day) ELSE NaT

L_0_3 == <<"0","_","3","_","M","O","N","T","H","S">>
L_3_6 == <<"3","_","6","_","M","O","N","T","H","S">>
L_6_12 == <<"6","_","1","2","_","M","O","N","T","H","S">>
L_12_PLUS == <<"1","2","_","P","L","U","S","_","M","O","N","T","H","S">>
L_OVERDUE == <<"O","V","E","R","D","U","E">>
L_NO_DATE == <<"N","O","_","D","A","T","E">>

\* ups_run.py imports bucket from ups_utils and applies it to the day counts
\* (lines 105-106); ups_utils.py defines no bucket. This is the function of
\* section 4.3 of the specification.
bucket(days) ==
    IF ~days.ok THEN L_NO_DATE
    ELSE IF days.v < 0 THEN L_OVERDUE
    ELSE IF days.v <= 90 THEN L_0_3
    ELSE IF days.v <= 180 THEN L_3_6
    ELSE IF days.v <= 365 THEN L_6_12
    ELSE L_12_PLUS

\* lines 108-114
logical_order == <<L_0_3, L_3_6, L_6_12, L_12_PLUS, L_OVERDUE>>

\* the missing category of a categorical column
NaNCategory == <<>>

\* pd.Categorical(values, categories=logical_order, ordered=True): a value
\* that is no category becomes missing
Categorical(label) == IF label \in Range(logical_order) THEN label ELSE NaNCategory

(***************************************************************************)
(* Suppression rules: lines 119-132                                        *)
(***************************************************************************)
WithinDays == 365

Abs(x) == IF x < 0 THEN -x ELSE x

both_dates_present(battery_due, unit_due) == battery_due.ok /\ unit_due.ok

\* a plausible slip: strictly less than a year apart
within_year_Strict(battery_due, unit_due) ==
    battery_due.ok /\ unit_due.ok /\ Abs(unit_due.v - battery_due.v) < WithinDays

\* (unit - battery).abs().dt.days <= 365; a missing difference compares False
within_year(battery_due, unit_due) ==
    battery_due.ok /\ unit_due.ok /\ Abs(unit_due.v - battery_due.v) <= WithinDays

prefer_unit_due_to_proximity(battery_due, unit_due) ==
    both_dates_present(battery_due, unit_due) /\ within_year(battery_due, unit_due)

\* (battery_days < 0) & (unit_days < 0); a missing day count compares False
both_overdue(battery_days, unit_days) ==
    /\ battery_days.ok /\ battery_days.v < 0
    /\ unit_days.ok /\ unit_days.v < 0

suppress_battery(battery_due, unit_due, battery_days, unit_days) ==
    prefer_unit_due_to_proximity(battery_due, unit_due) \/ both_overdue(battery_days, unit_days)

\* ups_utils.is_noc_contact
is_noc_contact(contact) == Contains(lower(strip(contact)), <<"n","o","c">>)

\* ups_utils.classify_idf_mdf
classify_idf_mdf(location_value) ==
    LET s == upper(str(location_value))
    IN IF Contains(s, <<"M","D","F">>) THEN "MDF"
       ELSE IF Contains(s, <<"I","D","F">>) THEN "IDF"
       ELSE "UNKNOWN"

\* lines 96-132 on one row: the derived columns
Classify(battery_cell, unit_cell, run_day) ==
    LET battery_due == to_date(battery_cell)
        unit_due == to_date(unit_cell)
        battery_days == days_until(battery_due, run_day)
        unit_days == days_until(unit_due, run_day)
    IN [ battery_due |-> battery_due,
         unit_due |-> unit_due,
         battery_days |-> battery_days,
         unit_days |-> unit_days,
         battery_bucket |-> Categorical(bucket(battery_days)),
         unit_bucket |-> Categorical(bucket(unit_days)),
         suppress_battery |-> suppress_battery(battery_due, unit_due, battery_days, unit_days) ]

(***************************************************************************)
(* Inputs of a run: the export's header row and its rows                   *)
(***************************************************************************)
MaxRows == 2
MaxTicks == 1
Day0 == 1000

Suffixes == { <<".","c","s","v">>, <<".","X","L","S","X">>, <<".","t","x","t">> }

\* an export with every column, its headers loosely typed
FullHeaders ==
    << [field |-> "contact", header |-> <<"c","o","n","t","a","c","t"," ">>],
       [field |-> "loc", header |-> <<"U","P","S"," ","L","o","c","a","t","i","o","n"," ","&"," ","H","o","s","t","n","a","m","e">>],
       [field |-> "ip", header |-> <<"i","p","_","a","d","d","r","e","s","s">>],
       [field |-> "mac", header |-> <<"M","A","C">>],
       [field |-> "battery_type", header |-> <<"b","a","t","t","e","r","y"," ","m","o","d","e","l">>],
       [field |-> "battery_due", header |-> <<"N","e","x","t"," ","B","a","t","t","e","r","y"," ","R","e","p","l","a","c","e","m","e","n","t">>],
       [field |-> "unit_model", header |-> <<"u","n","i","t"," "," ","m","o","d","e","l">>],
       [field |-> "unit_serial", header |-> <<"S","e","r","i","a","l"," ","#">>],
       [field |-> "unit_due", header |-> <<"R","E","P","L","A","C","E","M","E","N","T"," ","D","A","T","E">>] >>

\* an export with the required columns only
RequiredHeaders ==
    << [field |-> "contact", header |-> <<"C","o","n","t","a","c","t">>],
       [field |-> "loc", header |-> <<"L","o","c","a","t","i","o","n"," ","a","n","d"," ","H","o","s","t","n","a","m","e">>],
       [field |-> "battery_type", header |-> <<"B","a","t","t","e","r","y"," ","T","y","p","e">>],
       [field |-> "battery_due", header |-> <<"N","e","x","t"," ","B","a","t","t","e","r","y"," ","R","e","p","l","a","c","e","m","e","n","t"," ","D","a","t","e">>],
       [field |-> "unit_due", header |-> <<"U","n","i","t"," ","r","e","p","l","a","c","e","m","e","n","t"," ","D","a","t","e">>] >>

\* the unit due date under a name main does not know
UnitDueRenamed ==
    [RequiredHeaders EXCEPT ![5] = [field |-> "unit_due", header |-> <<"U","n","i","t"," ","D","u","e">>]]

Without(hs, f) == SelectSeq(hs, LAMBDA h : h.field # f)

HeaderRows ==
    {FullHeaders, RequiredHeaders, UnitDueRenamed}
    \cup {Without(RequiredHeaders, f) : f \in {"contact", "loc", "battery_type", "battery_due", "unit_due"}}
    \cup {Without(FullHeaders, "battery_type")}

Tbd == <<"t","b","d">>
ADate(d) == DateText(<<"d","a","t","e">>, d)

BlankIdentifiers ==
    [ip |-> Text(<<" ">>), mac |-> NaN, unit_serial |-> Text(<<>>), unit_model |-> NaN,
     battery_type |-> Text(<<"\t"," ">>)]
OnlyIp ==
    [ip |-> Text(<<"1","0">>), mac |-> NaN, unit_serial |-> NaN, unit_model |-> NaN,
     battery_type |-> Text(<<" ">>)]
OnlyBatteryType ==
    [ip |-> NaN, mac |-> Text(<<>>), unit_serial |-> NaN, unit_model |-> Text(<<" ">>),
     battery_type |-> Text(<<"x">>)]

ContactCells == {NaN, Text(<<"N","a","n">>)}
BatteryDueCells == {Text(Tbd), ADate(Day0 - 5)}
UnitDueCells == {NaN, ADate(Day0 - 20), ADate(Day0 + 500)}

InputRow(contact, ident, battery_due, unit_due) ==
    [ contact |-> contact, loc |-> Text(<<"M","D","F","-","1">>),
      ip |-> ident.ip, mac |-> ident.mac, unit_serial |-> ident.unit_serial,
      unit_model |-> ident.unit_model, battery_type |-> ident.battery_type,
      battery_due |-> battery_due, unit_due |-> unit_due ]

\* the rows an export may hold: identified rows with every contact and date
\* combination, and two rows whose identifying cells are blank or sit in a
\* column the export may lack
InputRows ==
    {InputRow(c, OnlyBatteryType, b, u) : c \in ContactCells, b \in BatteryDueCells, u \in UnitDueCells}
    \cup {InputRow(Text(<<"N","O","C","-","1">>), i, ADate(Day0 - 5), ADate(Day0 - 20)) :
              i \in {BlankIdentifiers, OnlyIp}}

Tables == UNION {[1..n -> InputRows] : n \in 0..MaxRows}

\* the frame pandas reads: the header row and, per row, a cell per column
Headers(hs) == [i \in DOMAIN hs |-> hs[i].header]
ReadRow(hs, row) ==
    [h \in Range(Headers(hs)) |-> row[hs[CHOOSE i \in DOMAIN hs : hs[i].header = h].field]]
ReadFrame(hs, rows) ==
    [columns |-> Headers(hs), rows |-> [k \in DOMAIN rows |-> ReadRow(hs, rows[k])]]

(***************************************************************************)
(* Paths and files                                                         *)
(***************************************************************************)
OutDir == <<"o","u","t">>
ByContact == <<"b","y","_","c","o","n","t","a","c","t">>
Batteries == <<"b","a","t","t","e","r","i","e","s">>
Units == <<"u","n","i","t","s">>
DotCsv == <<".","c","s","v">>

\* datetime.now().strftime("%m-%d-%Y"): the text of a day, one per day
strftime(day) == [format |-> "%m-%d-%Y", day |-> day]

\* Path(args.outdir) / stamp
OutRoot(st) == <<OutDir, st>>

\* a path's directories, the path itself left out
Parents(path) == {SubSeq(path, 1, n) : n \in 1..(Len(path) - 1)}

\* ups_utils.write_bucket_csv: the parent directories are made and the file
\* at out_path is replaced by the group's rows, in the columns that exist
write_bucket_csv(io, group, out_path, out_cols, call) ==
    [ files |-> (out_path :> [ cols |-> out_cols,
                               rows |-> {group[i].id : i \in DOMAIN group} ]) @@ io.files,
      dirs |-> io.dirs \cup Parents(out_path),
      writes |-> io.writes \cup {call} ]

\* list.insert(index, x)
Insert(seq, index, x) ==
    LET at == IF index > Len(seq) THEN Len(seq) ELSE index
    IN SubSeq(seq, 1, at) \o <<x>> \o SubSeq(seq, at + 1, Len(seq))

\* lines 147-152
battery_out_cols(c) == <<c.contact, c.loc, c.battery_type, c.battery_due>>
unit_out_cols(c) ==
    LET base == <<c.contact, c.loc, c.unit_due>>
        with_model == IF c.unit_model # None THEN Insert(base, 2, c.unit_model) ELSE base
    IN IF c.unit_serial # None THEN Insert(with_model, 3, c.unit_serial) ELSE with_model

\* the bucket column a view is split on
BucketOf(r, view) == IF view = Batteries THEN r.battery_bucket ELSE r.unit_bucket

\* lines 164-167 and 171-174: one CSV per bucket of the view that has rows
RECURSIVE WriteBuckets(_, _, _, _, _, _, _)
WriteBuckets(io, contact, view, group, folder, out_cols, k) ==
    IF k > Len(logical_order) THEN io
    ELSE LET b == logical_order[k]
             subset == SelectSeq(group, LAMBDA r : BucketOf(r, view) = b)
             path == folder \o <<lower(b) \o DotCsv>>
             call == [contact |-> contact, view |-> view, bucket |-> b, path |-> path]
         IN WriteBuckets(IF Len(subset) > 0
                         THEN write_bucket_csv(io, subset, path, out_cols, call)
                         ELSE io,
                         contact, view, group, folder, out_cols, k + 1)

\* the order of texts: Python compares code points
AsciiSeq == <<"\t", "\n", " ", "#", "&", "'", "-", ".">> \o DigitSeq \o UpperSeq
            \o <<"_">> \o LowerSeq
Ord(c) == CHOOSE i \in DOMAIN AsciiSeq : AsciiSeq[i] = c

RECURSIVE TextLess(_, _)
TextLess(a, b) ==
    IF b = <<>> THEN FALSE
    ELSE IF a = <<>> THEN TRUE
    ELSE IF Head(a) = Head(b) THEN TextLess(Tail(a), Tail(b))
    ELSE Ord(Head(a)) < Ord(Head(b))

\* df.groupby(contact_col, dropna=False): the keys, which groupby sorts
GroupKeys(frame) == {frame[i].contact : i \in DOMAIN frame}
FirstKey(keys) == CHOOSE k \in keys : \A o \in keys \ {k} : TextLess(k, o)

\* series.value_counts(sort=False, dropna=True) of a categorical column: a
\* count per category, each kept as the set of the rows it counts
value_counts(frame, view) ==
    [b \in Range(logical_order) |->
        {frame[i].id : i \in {j \in DOMAIN frame : BucketOf(frame[j], view) = b}}]

(***************************************************************************)
(* main                                                                    *)
(***************************************************************************)
NoFrame == [columns |-> <<>>, rows |-> <<>>]
NoColumns == [f \in Fields |-> None]
NoStamp == strftime(0)
NoSummary == [written |-> FALSE]
NoExit == [kind |-> "none"]

MainIdle ==
    /\ pc = "idle" /\ in_exists = FALSE /\ suffix = <<>> /\ clock = Day0
    /\ loaded = NoFrame /\ cols = NoColumns /\ df = <<>> /\ df_battery_effective = <<>>
    /\ today = 0 /\ stamp = NoStamp /\ dirs = {} /\ files = <<>> /\ writes = {}
    /\ contacts_done = {} /\ summary = NoSummary /\ exit_msg = NoExit
RowIdle == rw_pc = "idle" /\ rw_in = <<>> /\ rw_out = <<>>
ModuleIdle == mod_pc = "idle" /\ mod_defined = <<>> /\ mod_bound = <<>>
SafeNameIdle == sn_pc = "idle" /\ sn_in = NaN /\ sn_once = <<>> /\ sn_twice = <<>>

\* main is entered: the arguments are parsed, nothing is read or written yet
Init ==
    /\ pc = "start"
    /\ in_exists \in BOOLEAN
    /\ suffix \in Suffixes
    /\ clock = Day0
    /\ loaded = NoFrame /\ cols = NoColumns /\ df = <<>> /\ df_battery_effective = <<>>
    /\ today = 0 /\ stamp = NoStamp /\ dirs = {} /\ files = <<>> /\ writes = {}
    /\ contacts_done = {} /\ summary = NoSummary /\ exit_msg = NoExit
    /\ RowIdle /\ ModuleIdle /\ SafeNameIdle

\* the system clock passes midnight between main's two reads of it, at
\* lines 71 and 142 (a run starts on Day0: the input's dates are relative to it)
Tick ==
    /\ pc = "prepared"
    /\ clock < Day0 + MaxTicks
    /\ clock' = clock + 1
    /\ UNCHANGED <<pc, in_exists, suffix, loaded, cols, df, df_battery_effective, today,
                   stamp, dirs, files, writes, contacts_done, summary, exit_msg>>
    /\ UNCHANGED <<rwVars, modVars, snVars>>

\* lines 29-30
InputNotFound ==
    /\ pc = "start"
    /\ ~in_exists
    /\ pc' = "fatal"
    /\ exit_msg' = [kind |-> "not found"]
    /\ UNCHANGED <<in_exists, suffix, clock, loaded, cols, df, df_battery_effective, today,
                   stamp, dirs, files, writes, contacts_done, summary>>
    /\ UNCHANGED <<rwVars, modVars, snVars>>

\* lines 33-38
UnsupportedInput ==
    /\ pc = "start"
    /\ in_exists
    /\ ~SuffixSupported(suffix)
    /\ pc' = "fatal"
    /\ exit_msg' = [kind |-> "unsupported"]
    /\ UNCHANGED <<in_exists, suffix, clock, loaded, cols, df, df_battery_effective, today,
                   stamp, dirs, files, writes, contacts_done, summary>>
    /\ UNCHANGED <<rwVars, modVars, snVars>>

\* lines 33-69: the export is read and a required column is not found
MissingColumns ==
    /\ pc = "start"
    /\ in_exists
    /\ SuffixSupported(suffix)
    /\ \E hs \in HeaderRows :
        LET missing == MissingRequired(ResolveColumns(Headers(hs)))
        IN /\ missing # <<>>
           /\ exit_msg' = [kind |-> "missing columns", missing |-> missing,
                           columns |-> Headers(hs)]
    /\ pc' = "fatal"
    /\ UNCHANGED <<in_exists, suffix, clock, loaded, cols, df, df_battery_effective, today,
                   stamp, dirs, files, writes, contacts_done, summary>>
    /\ UNCHANGED <<rwVars, modVars, snVars>>

\* lines 33-69: the export is read and every required column is found
Load ==
    /\ pc = "start"
    /\ in_exists
    /\ SuffixSupported(suffix)
    /\ \E hs \in HeaderRows :
        /\ cols' = ResolveColumns(Headers(hs))
        /\ MissingRequired(cols') = <<>>
        /\ \E rows \in Tables :
            /\ loaded' = ReadFrame(hs, rows)
            /\ df' = [k \in DOMAIN rows |-> [id |-> k, cells |-> loaded'.rows[k]]]
    /\ pc' = "loaded"
    /\ UNCHANGED <<in_exists, suffix, clock, df_battery_effective, today,
                   stamp, dirs, files, writes, contacts_done, summary, exit_msg>>
    /\ UNCHANGED <<rwVars, modVars, snVars>>

\* line 74: fillna("UNASSIGNED") on the contact column
FillContact(cell) == IF cell.kind = "nan" THEN Text(UNASSIGNED) ELSE cell

\* lines 93-135 on one retained row
Annotate(r, resolved, run_day) ==
    LET c == Classify(r.cells[resolved.battery_due], r.cells[resolved.unit_due], run_day)
        contact == FillContact(r.cells[resolved.contact]).s
    IN [ id |-> r.id, cells |-> r.cells, contact |-> contact,
         closet_type |-> classify_idf_mdf(r.cells[resolved.loc]),
         battery_due |-> c.battery_due, unit_due |-> c.unit_due,
         battery_days |-> c.battery_days, unit_days |-> c.unit_days,
         battery_bucket |-> c.battery_bucket, unit_bucket |-> c.unit_bucket,
         suppress_battery |-> c.suppress_battery,
         is_noc |-> is_noc_contact(contact) ]

\* lines 137-139
BatteryEffective(frame) ==
    SelectSeq(SelectSeq(frame, LAMBDA r : ~r.suppress_battery), LAMBDA r : r.battery_due.ok)

\* lines 71-139: today is read, the rows without identifier are dropped, the
\* rest are classified
Prepare ==
    /\ pc = "loaded"
    /\ today' = clock
    /\ LET kept == SelectSeq(df, LAMBDA r : has_identifier(r.cells, cols))
           frame == [i \in DOMAIN kept |-> Annotate(kept[i], cols, clock)]
       IN /\ df' = frame
          /\ df_battery_effective' = BatteryEffective(frame)
    /\ pc' = "prepared"
    /\ UNCHANGED <<in_exists, suffix, clock, loaded, cols,
                   stamp, dirs, files, writes, contacts_done, summary, exit_msg>>
    /\ UNCHANGED <<rwVars, modVars, snVars>>

\* lines 141-144: the stamp is read from the clock and the output root made
MakeOutRoot ==
    /\ pc = "prepared"
    /\ stamp' = strftime(clock)
    /\ dirs' = dirs \cup {OutRoot(strftime(clock))} \cup Parents(OutRoot(strftime(clock)))
    /\ pc' = "writing"
    /\ UNCHANGED <<in_exists, suffix, clock, loaded, cols, df, df_battery_effective, today,
                   files, writes, contacts_done, summary, exit_msg>>
    /\ UNCHANGED <<rwVars, modVars, snVars>>

\* lines 158-174: one turn of the loop over the contacts
WriteContact ==
    /\ pc = "writing"
    /\ GroupKeys(df) \ contacts_done # {}
    /\ LET contact == FirstKey(GroupKeys(df) \ contacts_done)
           g_all == SelectSeq(df, LAMBDA r : r.contact = contact)
           g_bat == SelectSeq(df_battery_effective, LAMBDA r : r.contact = contact)
           contact_folder == OutRoot(stamp) \o <<ByContact, safe_name(Text(contact))>>
           io0 == [files |-> files, dirs |-> dirs, writes |-> writes]
           io1 == WriteBuckets(io0, contact, Batteries, g_bat,
                               contact_folder \o <<Batteries>>, battery_out_cols(cols), 1)
           io2 == WriteBuckets(io1, contact, Units, g_all,
                               contact_folder \o <<Units>>, unit_out_cols(cols), 1)
       IN /\ files' = io2.files
          /\ dirs' = io2.dirs
          /\ writes' = io2.writes
          /\ contacts_done' = contacts_done \cup {contact}
    /\ UNCHANGED <<pc, in_exists, suffix, clock, loaded, cols, df, df_battery_effective,
                   today, stamp, summary, exit_msg>>
    /\ UNCHANGED <<rwVars, modVars, snVars>>

\* lines 179-251: the counts of summary.txt
Summarize(frame, battery_frame, run_day) ==
    LET noc_all == SelectSeq(frame, LAMBDA r : r.is_noc)
        noc_bat == SelectSeq(battery_frame, LAMBDA r : r.is_noc)
    IN [ written |-> TRUE,
         run_date |-> run_day,
         battery_buckets |-> value_counts(battery_frame, Batteries),
         unit_buckets |-> value_counts(frame, Units),
         suppressed |-> {frame[i].id : i \in {j \in DOMAIN frame : frame[j].suppress_battery}},
         noc_batteries_overdue |-> value_counts(noc_bat, Batteries)[L_OVERDUE],
         noc_units_overdue |-> value_counts(noc_all, Units)[L_OVERDUE] ]

\* lines 176-256: the loop has ended and summary.txt is written
WriteSummary ==
    /\ pc = "writing"
    /\ GroupKeys(df) \ contacts_done = {}
    /\ summary' = Summarize(df, df_battery_effective, today)
    /\ pc' = "done"
    /\ UNCHANGED <<in_exists, suffix, clock, loaded, cols, df, df_battery_effective, today,
                   stamp, dirs, files, writes, contacts_done, exit_msg>>
    /\ UNCHANGED <<rwVars, modVars, snVars>>

Next ==
    \/ Tick
    \/ InputNotFound
    \/ UnsupportedInput
    \/ MissingColumns
    \/ Load
    \/ Prepare
    \/ MakeOutRoot
    \/ WriteContact
    \/ WriteSummary

Spec == Init /\ [][Next]_vars

(***************************************************************************)
(* One row through the classification, on dates around every threshold     *)
(***************************************************************************)
RowOffsets == {-400, -366, -365, -1, 0, 1, 90, 91, 180, 181, 365, 366, 400}
RowDateCells == {NaN, Text(Tbd)} \cup {ADate(Day0 + o) : o \in RowOffsets}

InitRow ==
    /\ rw_pc = "in"
    /\ rw_in \in [battery : RowDateCells, unit : RowDateCells, today : {Day0, Day0 + 1}]
    /\ rw_out = <<>>
    /\ MainIdle /\ ModuleIdle /\ SafeNameIdle

ClassifyRow ==
    /\ rw_pc = "in"
    /\ rw_out' = Classify(rw_in.battery, rw_in.unit, rw_in.today)
    /\ rw_pc' = "classified"
    /\ UNCHANGED rw_in
    /\ UNCHANGED <<mainVars, modVars, snVars>>

NextRow == ClassifyRow

SpecRow == InitRow /\ [][NextRow]_vars

(***************************************************************************)
(* The load of ups_run.py: ups_utils is executed, then its names imported  *)
(***************************************************************************)
\* the names ups_utils.py binds, in the order of its statements
UtilsNames ==
    << "Path", "re", "pd", "normalize", "find_col", "safe_name", "to_date",
       "FISCAL_YEAR_START_MONTH", "fiscal_year_end", "calendar_year_end", "bucket_due",
       "write_bucket_csv", "not_blank", "classify_idf_mdf", "is_noc_contact",
       "format_counts", "list_overdue_locations" >>

\* ups_run.py lines 6-17
ImportedNames ==
    << "find_col", "safe_name", "to_date", "bucket", "write_bucket_csv", "not_blank",
       "classify_idf_mdf", "is_noc_contact", "format_counts", "list_overdue_locations" >>

InitModule ==
    /\ mod_pc = "ups_utils"
    /\ mod_defined = <<>>
    /\ mod_bound = <<>>
    /\ pc = "unloaded"
    /\ in_exists \in BOOLEAN
    /\ suffix \in Suffixes
    /\ clock = Day0
    /\ loaded = NoFrame /\ cols = NoColumns /\ df = <<>> /\ df_battery_effective = <<>>
    /\ today = 0 /\ stamp = NoStamp /\ dirs = {} /\ files = <<>> /\ writes = {}
    /\ contacts_done = {} /\ summary = NoSummary /\ exit_msg = NoExit
    /\ RowIdle /\ SafeNameIdle

\* one statement of ups_utils.py binds its name
ExecUtilsStatement ==
    /\ mod_pc = "ups_utils"
    /\ mod_defined' = Append(mod_defined, UtilsNames[Len(mod_defined) + 1])
    /\ mod_pc' = IF Len(mod_defined) + 1 = Len(UtilsNames) THEN "import" ELSE "ups_utils"
    /\ UNCHANGED mod_bound
    /\ UNCHANGED <<mainVars, rwVars, snVars>>

\* from ups_utils import (...): the next name is bound, or ImportError is
\* raised when ups_utils has no such name
ImportName ==
    /\ mod_pc = "import"
    /\ LET name == ImportedNames[Len(mod_bound) + 1]
       IN IF name \in Range(mod_defined)
          THEN /\ mod_bound' = Append(mod_bound, name)
               /\ mod_pc' = IF Len(mod_bound) + 1 = Len(ImportedNames) THEN "main" ELSE "import"
          ELSE /\ mod_pc' = "ImportError"
               /\ UNCHANGED mod_bound
    /\ UNCHANGED mod_defined
    /\ UNCHANGED <<mainVars, rwVars, snVars>>

NextModule == ExecUtilsStatement \/ ImportName

SpecModule == InitModule /\ [][NextModule]_vars

(***************************************************************************)
(* safe_name applied once and again, on bounded inputs                     *)
(***************************************************************************)
MaxNameLen == 4
NameAlphabet == {"n", "a", "N", " ", "'", "_", "-"}
JaneOBrien == <<"J","a","n","e"," ","O","'","B","r","i","e","n">>

NameInputs ==
    {NaN, Text(JaneOBrien)}
    \cup {Text(s) : s \in UNION {[1..n -> NameAlphabet] : n \in 0..MaxNameLen}}

InitSafeName ==
    /\ sn_pc = "in"
    /\ sn_in \in NameInputs
    /\ sn_once = <<>>
    /\ sn_twice = <<>>
    /\ MainIdle /\ RowIdle /\ ModuleIdle

ApplySafeName ==
    /\ sn_pc = "in"
    /\ sn_once' = safe_name(sn_in)
    /\ sn_pc' = "once"
    /\ UNCHANGED <<sn_in, sn_twice>>
    /\ UNCHANGED <<mainVars, rwVars, modVars>>

ReapplySafeName ==
    /\ sn_pc = "once"
    /\ sn_twice' = safe_name(Text(sn_once))
    /\ sn_pc' = "twice"
    /\ UNCHANGED <<sn_in, sn_once>>
    /\ UNCHANGED <<mainVars, rwVars, modVars>>

NextSafeName == ApplySafeName \/ ReapplySafeName

SpecSafeName == InitSafeName /\ [][NextSafeName]_vars

\* C5: sanitising a sanitised contact changes nothing:
\* safe_name(safe_name(x)) = safe_name(x) for every contact value x.
C5_Idempotent == sn_pc = "twice" => sn_twice = sn_once

\* a blank contact: missing, or a text of whitespace only
IsBlankContact(x) == x.kind = "nan" \/ \A i \in DOMAIN x.s : IsSpace(x.s[i])

\* C6 (as stated): a blank or NaN contact sanitises to "UNASSIGNED" and
\* "Jane O'Brien" sanitises to "JaneOBrien".
C6_JaneOBrien ==
    sn_pc # "in" =>
        /\ IsBlankContact(sn_in) => sn_once = UNASSIGNED
        /\ sn_in = Text(JaneOBrien) =>
               sn_once = <<"J","a","n","e","O","B","r","i","e","n">>

\* C6 (amended): a blank or NaN contact sanitises to "UNASSIGNED" and
\* "Jane O'Brien" sanitises to "Jane_OBrien": the apostrophe is dropped and
\* the space becomes an underscore.
C6_Jane_OBrien ==
    sn_pc # "in" =>
        /\ IsBlankContact(sn_in) => sn_once = UNASSIGNED
        /\ sn_in = Text(JaneOBrien) =>
               sn_once = <<"J","a","n","e","_","O","B","r","i","e","n">>

C6_Witness == sn_pc = "once" /\ sn_in = Text(JaneOBrien)

(***************************************************************************)
(* Claims about the load of the module                                     *)
(***************************************************************************)
\* C1: main applies bucket, the day-threshold function, to battery_days and
\* unit_days: when the load of ups_run.py has ended, main is entered with the
\* name bucket bound.
C1_BucketBound ==
    mod_pc \notin {"ups_utils", "import"} =>
        mod_pc = "main" /\ "bucket" \in Range(mod_bound)

(***************************************************************************)
(* Claims about one row                                                    *)
(***************************************************************************)
\* C2: suppress_battery is true exactly when both due dates are present and
\* at most 365 days apart, or both lie before the run date; a row with a
\* missing due date is never suppressed.
C2_Suppress ==
    rw_pc = "classified" =>
        LET b == rw_in.battery
            u == rw_in.unit
            present == b.kind = "date" /\ u.kind = "date"
            near == present /\ u.day - b.day <= 365 /\ b.day - u.day <= 365
            overdue == present /\ b.day < rw_in.today /\ u.day < rw_in.today
        IN /\ rw_out.suppress_battery <=> (near \/ overdue)
           /\ ~present => ~rw_out.suppress_battery

\* a row suppressed by the both-overdue rule alone
C2_Witness ==
    /\ rw_pc = "classified"
    /\ rw_out.suppress_battery
    /\ rw_in.battery.kind = "date" /\ rw_in.unit.kind = "date"
    /\ rw_in.unit.day - rw_in.battery.day > 365

(***************************************************************************)
(* Claims about a run of main                                              *)
(***************************************************************************)
\* a CSV's path is <<outdir, stamp, "by_contact", folder, view, file>>
CsvPaths(view) == {p \in DOMAIN files : p[5] = view}
InSomeCsv(id, view) == \E p \in CsvPaths(view) : id \in files[p].rows
Counted(id, counts) == \E b \in DOMAIN counts : id \in counts[b]

\* C3: a retained row with suppress_battery true is in no battery CSV and no
\* battery bucket count, and is in a unit CSV and in the unit counts.
C3_SuppressedRowOutputs ==
    pc = "done" =>
        \A i \in DOMAIN df :
            df[i].suppress_battery =>
                /\ ~InSomeCsv(df[i].id, Batteries)
                /\ ~Counted(df[i].id, summary.battery_buckets)
                /\ InSomeCsv(df[i].id, Units)
                /\ Counted(df[i].id, summary.unit_buckets)

\* the rows of the bucket CSVs of one contact folder and view, summed
RECURSIVE CsvRowSum(_, _, _)
CsvRowSum(folder, view, k) ==
    IF k > Len(logical_order) THEN 0
    ELSE LET p == OutRoot(stamp) \o <<ByContact, folder, view, lower(logical_order[k]) \o DotCsv>>
         IN (IF p \in DOMAIN files THEN Cardinality(files[p].rows) ELSE 0)
            + CsvRowSum(folder, view, k + 1)

RowsOf(frame, contact) == Cardinality({i \in DOMAIN frame : frame[i].contact = contact})

\* C4: after a completed run, for every contact, the rows of its battery
\* bucket CSVs sum to its battery-effective row count and the rows of its unit
\* bucket CSVs sum to its retained row count.
C4_CsvRowSums ==
    pc = "done" =>
        \A contact \in GroupKeys(df) :
            /\ CsvRowSum(safe_name(Text(contact)), Batteries, 1)
                   = RowsOf(df_battery_effective, contact)
            /\ CsvRowSum(safe_name(Text(contact)), Units, 1) = RowsOf(df, contact)

\* what the claim calls non-blank: not missing, and not empty once trimmed
NonBlankCell(cell) == cell.kind # "nan" /\ \E j \in DOMAIN cell.s : ~IsSpace(cell.s[j])

\* row k of the export has a non-blank cell in an identifier column that exists
HasIdentifyingCell(k) ==
    \E f \in {"ip", "mac", "unit_serial", "unit_model", "battery_type"} :
        cols[f] # None /\ NonBlankCell(loaded.rows[k][cols[f]])

IsRetained(k) == \E i \in DOMAIN df : df[i].id = k

InSummary(k) ==
    /\ summary.written
    /\ \/ Counted(k, summary.battery_buckets)
       \/ Counted(k, summary.unit_buckets)
       \/ k \in summary.suppressed
       \/ k \in summary.noc_batteries_overdue
       \/ k \in summary.noc_units_overdue

\* C7: a row is retained iff one of its identifier cells, in a column that
\* exists, is non-blank; a row without one is in no CSV and no summary count.
C7_RowFilter ==
    pc \in {"prepared", "writing", "done"} =>
        \A k \in DOMAIN loaded.rows :
            /\ IsRetained(k) <=> HasIdentifyingCell(k)
            /\ ~HasIdentifyingCell(k) =>
                   /\ \A p \in DOMAIN files : k \notin files[p].rows
                   /\ ~InSummary(k)

\* a finished run that dropped one row and wrote another to a CSV
C7_Witness ==
    /\ pc = "done"
    /\ \E k \in DOMAIN loaded.rows : ~HasIdentifyingCell(k)
    /\ \E k \in DOMAIN loaded.rows :
           HasIdentifyingCell(k) /\ \E p \in DOMAIN files : k \in files[p].rows

\* some column of the export carries one of the field's names, compared
\* without case, spacing and punctuation
FieldFound(columns, f) ==
    \E i \in DOMAIN columns, j \in DOMAIN Candidates[f] :
        normalize(columns[i]) = normalize(Candidates[f][j])

NothingWritten == dirs = {} /\ DOMAIN files = {} /\ writes = {} /\ ~summary.written

\* C8: when the input file is missing, its suffix is none of .csv, .xlsx,
\* .xls, or one of the five required columns is not found, the run ends fatal
\* and nothing has been written; a run gets past its checks only otherwise.
C8_FatalInput ==
    /\ pc = "fatal" =>
           /\ NothingWritten
           /\ exit_msg.kind = "not found" => ~in_exists
           /\ exit_msg.kind = "unsupported" =>
                  lower(suffix) \notin {<<".","c","s","v">>, <<".","x","l","s","x">>, <<".","x","l","s">>}
           /\ exit_msg.kind = "missing columns" =>
                  \E f \in {"contact", "loc", "battery_type", "battery_due", "unit_due"} :
                      ~FieldFound(exit_msg.columns, f)
    /\ pc \in {"loaded", "prepared", "writing", "done"} =>
           /\ in_exists
           /\ lower(suffix) \in {<<".","c","s","v">>, <<".","x","l","s","x">>, <<".","x","l","s">>}
           /\ \A f \in {"contact", "loc", "battery_type", "battery_due", "unit_due"} :
                  FieldFound(loaded.columns, f)

\* a run ended by a required column that is not found
C8_Witness == pc = "fatal" /\ exit_msg.kind = "missing columns"

\* C9: no two distinct (contact, view, bucket) partitions write the same path.
C9_PartitionsDisjoint ==
    \A w1 \in writes, w2 \in writes :
        w1.path = w2.path =>
            w1.contact = w2.contact /\ w1.view = w2.view /\ w1.bucket = w2.bucket

\* C10: the day of every day count, the run date of the summary and the day
\* of the output folder's stamp are one and the same day.
C10_OneRunDate ==
    pc = "done" =>
        /\ summary.run_date = today
        /\ stamp = strftime(today)
        /\ \A i \in DOMAIN df :
               /\ df[i].battery_days.ok => df[i].battery_days.v = df[i].battery_due.v - today
               /\ df[i].unit_days.ok => df[i].unit_days.v = df[i].unit_due.v - today
====
